---- MODULE Spec2Model ----
(***************************************************************************)
(* Model of scripts/generate-content.js: the content aggregation script    *)
(* that turns content/{projects,news,team,stats} into public/data/*.json.  *)
(*                                                                         *)
(* Strings are sequences of one-character strings, so that split, trim,    *)
(* indexOf, includes, toLowerCase and localeCompare are computed on the    *)
(* characters as the script computes them.                                 *)
(***************************************************************************)
EXTENDS Integers, Sequences, FiniteSets, TLC

VARIABLES
    fs,       \* the filesystem snapshot the run reads
    pc,       \* pc[p]: the await at which process p is suspended
    items,    \* items[c]: the directory listing collector c obtained
    idx,      \* idx[c]: position in items[c] of the entry being processed
    meta,     \* meta[c]: parseMetaTxt result of the entry being processed
    cand,     \* cand[c]: index of the cover/photo candidate being probed
    cover,    \* cover[c]: cover/photo found for the entry being processed
    out,      \* out[c]: the collector's own accumulation list
    result,   \* result[p]: what collector p returned
    written,  \* artifacts written by main, by file name
    warned,   \* console.warn sink: <<collector, slug>> pairs
    arg,      \* argument of the function call under study (pure-function runs)
    ret       \* its return value

vars == <<fs, pc, items, idx, meta, cand, cover, out, result, written, warned, arg, ret>>

\* null, and a failed read: one-element sequences no string (a sequence of
\* one-character strings) is equal to.
Null == <<"null">>
NoFile == <<"ENOENT">>

(***************************************************************************)
(* Strings                                                                 *)
(***************************************************************************)
LF == "\n"
CR == "\r"

Whitespace == {" ", "\t", LF, CR}

\* String.prototype.trim
RECURSIVE TrimStart(_)
TrimStart(s) ==
    IF s # <<>> /\ Head(s) \in Whitespace THEN TrimStart(Tail(s)) ELSE s

RECURSIVE TrimEnd(_)
TrimEnd(s) ==
    IF s # <<>> /\ s[Len(s)] \in Whitespace
    THEN TrimEnd(SubSeq(s, 1, Len(s) - 1))
    ELSE s

Trim(s) == TrimEnd(TrimStart(s))

\* s.startsWith(p) at position i (1-based)
MatchAt(s, p, i) ==
    /\ i >= 1
    /\ i + Len(p) - 1 <= Len(s)
    /\ SubSeq(s, i, i + Len(p) - 1) = p

\* String.prototype.indexOf(p), 1-based; 0 stands for JavaScript's -1
RECURSIVE IndexFrom(_, _, _)
IndexFrom(s, p, i) ==
    IF i + Len(p) - 1 > Len(s) THEN 0
    ELSE IF MatchAt(s, p, i) THEN i
    ELSE IndexFrom(s, p, i + 1)

IndexOf(s, p) == IndexFrom(s, p, 1)

\* String.prototype.includes
Includes(s, p) == p = <<>> \/ IndexOf(s, p) # 0

\* String.prototype.split with a literal separator (/\n---\n/ has no
\* alternatives): leftmost, non-overlapping matches.
RECURSIVE Split(_, _)
Split(s, sep) ==
    LET i == IndexOf(s, sep) IN
    IF i = 0 THEN <<s>>
    ELSE <<SubSeq(s, 1, i - 1)>> \o Split(SubSeq(s, i + Len(sep), Len(s)), sep)

\* String.prototype.split(/\r?\n/): at each leftmost match the optional \r
\* in front of the \n belongs to the separator.
RECURSIVE SplitLines(_)
SplitLines(s) ==
    LET i == IndexOf(s, <<LF>>) IN
    IF i = 0 THEN <<s>>
    ELSE LET e == IF i > 1 /\ s[i - 1] = CR THEN i - 2 ELSE i - 1
         IN <<SubSeq(s, 1, e)>> \o SplitLines(SubSeq(s, i + 1, Len(s)))

\* Array.prototype.join
RECURSIVE Join(_, _)
Join(parts, sep) ==
    IF parts = <<>> THEN <<>>
    ELSE IF Len(parts) = 1 THEN parts[1]
    ELSE parts[1] \o sep \o Join(Tail(parts), sep)

(***************************************************************************)
(* Objects with string keys: functions from keys to values.                *)
(***************************************************************************)
EmptyObj == [k \in {} |-> <<>>]

Put(obj, key, value) ==
    [k \in DOMAIN obj \cup {key} |-> IF k = key THEN value ELSE obj[k]]

\* obj.key ?? dflt  (a present key is never null or undefined here)
GetOr(obj, key, dflt) == IF key \in DOMAIN obj THEN obj[key] ELSE dflt

K_description == <<"d","e","s","c","r","i","p","t","i","o","n">>
K_title == <<"t","i","t","l","e">>
K_date == <<"d","a","t","e">>
K_name == <<"n","a","m","e">>
K_role == <<"r","o","l","e">>
K_tags == <<"t","a","g","s">>
K_status == <<"s","t","a","t","u","s">>
K_links == <<"l","i","n","k","s">>
K_author == <<"a","u","t","h","o","r">>
K_email == <<"e","m","a","i","l">>

(***************************************************************************)
(* parseMetaTxt                                                            *)
(***************************************************************************)
Delimiter == <<LF, "-", "-", "-", LF>>

\* The for loop over the header lines, lines 20-27.
RECURSIVE HeadLoop(_, _)
HeadLoop(lines, head) ==
    IF lines = <<>> THEN head
    ELSE LET line == Head(lines)
             i == IndexOf(line, <<":">>)
         IN IF Trim(line) = <<>> THEN HeadLoop(Tail(lines), head)
            ELSE IF i = 0 THEN HeadLoop(Tail(lines), head)
            ELSE HeadLoop(Tail(lines),
                    Put(head, Trim(SubSeq(line, 1, i - 1)),
                              Trim(SubSeq(line, i + 1, Len(line)))))

parseMetaTxt(txt) ==
    LET parts == Split(txt, Delimiter)
        headRaw == Head(parts)
        rest == Tail(parts)
        head == HeadLoop(SplitLines(headRaw), EmptyObj)
        body == IF Len(rest) > 0 THEN Trim(Join(rest, Delimiter)) ELSE <<>>
    IN Put(head, K_description, body)

(***************************************************************************)
(* String.prototype.toLowerCase and String.prototype.localeCompare         *)
(***************************************************************************)
LowerLetters == <<"a","b","c","d","e","f","g","h","i","j","k","l","m",
                  "n","o","p","q","r","s","t","u","v","w","x","y","z">>
UpperLetters == <<"A","B","C","D","E","F","G","H","I","J","K","L","M",
                  "N","O","P","Q","R","S","T","U","V","W","X","Y","Z">>
\* Non-letters in collation order (ICU root order: white space, punctuation,
\* digits), which on these characters is also their code-unit order.
NonLetters == <<" ", "-", "0","1","2","3","4","5","6","7","8","9">>

PosIn(seq, ch) == CHOOSE i \in 1..Len(seq) : seq[i] = ch
IsIn(seq, ch) == \E i \in 1..Len(seq) : seq[i] = ch

LowerChar(ch) == IF IsIn(UpperLetters, ch) THEN LowerLetters[PosIn(UpperLetters, ch)] ELSE ch

toLowerCase(s) == [i \in 1..Len(s) |-> LowerChar(s[i])]

\* Primary collation weight: the base letter, whatever its case; letters
\* after digits, digits after punctuation.  (The Polish tailoring only moves
\* letters with diacritics, none of which is in the alphabet modelled.)
Primary(ch) ==
    IF IsIn(LowerLetters, ch) THEN 100 + PosIn(LowerLetters, ch)
    ELSE IF IsIn(UpperLetters, ch) THEN 100 + PosIn(UpperLetters, ch)
    ELSE IF IsIn(NonLetters, ch) THEN PosIn(NonLetters, ch)
    ELSE 0

\* Tertiary weight: lower case before upper case.
Tertiary(ch) == IF IsIn(UpperLetters, ch) THEN 1 ELSE 0

\* Lexicographic three-way comparison of two strings by a weight W.
RECURSIVE CmpBy(_, _, _)
CmpBy(x, y, level) ==
    LET W(ch) == IF level = 1 THEN Primary(ch) ELSE Tertiary(ch) IN
    IF x = <<>> /\ y = <<>> THEN 0
    ELSE IF x = <<>> THEN -1
    ELSE IF y = <<>> THEN 1
    ELSE IF W(Head(x)) < W(Head(y)) THEN -1
    ELSE IF W(Head(x)) > W(Head(y)) THEN 1
    ELSE CmpBy(Tail(x), Tail(y), level)

\* x.localeCompare(y) and x.localeCompare(y, "pl"): multi-level collation,
\* the whole strings by primary weight first, case only to break a tie.
localeCompare(x, y) ==
    IF CmpBy(x, y, 1) # 0 THEN CmpBy(x, y, 1) ELSE CmpBy(x, y, 2)

(***************************************************************************)
(* The sort comparators                                                    *)
(***************************************************************************)
\* JavaScript truthiness of a record's date: null and "" are falsy.
Truthy(v) == v # Null /\ v # <<>>

\* projectsCompare with the dates compared oldest first.
projectsCompare_oldestFirst(a, b) ==
    IF Truthy(a.date) /\ Truthy(b.date) THEN localeCompare(a.date, b.date)
    ELSE IF Truthy(a.date) THEN -1
    ELSE IF Truthy(b.date) THEN 1
    ELSE localeCompare(a.title, b.title)

\* collectProjects, lines 91-96
projectsCompare(a, b) ==
    IF Truthy(a.date) /\ Truthy(b.date) THEN localeCompare(b.date, a.date)
    ELSE IF Truthy(a.date) THEN -1
    ELSE IF Truthy(b.date) THEN 1
    ELSE localeCompare(a.title, b.title)

\* newsCompare with the dates compared oldest first.
newsCompare_oldestFirst(a, b) ==
    IF Truthy(a.date) /\ Truthy(b.date) THEN localeCompare(a.date, b.date)
    ELSE localeCompare(a.slug, b.slug)

\* collectNews, line 141
newsCompare(a, b) ==
    IF Truthy(a.date) /\ Truthy(b.date) THEN localeCompare(b.date, a.date)
    ELSE localeCompare(a.slug, b.slug)

\* rolePriority with its keywords listed in ascending priority.
rolePriority_ascending ==
    << [key |-> <<"h","e","a","d">>, value |-> 1],
       [key |-> <<"l","e","a","d","e","r">>, value |-> 2],
       [key |-> <<"p","r","e","s","i","d","e","n","t">>, value |-> 3] >>

\* Object.entries(rolePriority): insertion order of the literal, lines 185-189
rolePriority ==
    << [key |-> <<"p","r","e","s","i","d","e","n","t">>, value |-> 3],
       [key |-> <<"l","e","a","d","e","r">>, value |-> 2],
       [key |-> <<"h","e","a","d">>, value |-> 1] >>

\* Object.entries(rolePriority).find(([key]) => role.includes(key))?.[1] ?? 0
roleScore(role) ==
    LET hits == {i \in 1..Len(rolePriority) : Includes(role, rolePriority[i].key)} IN
    IF hits = {} THEN 0
    ELSE rolePriority[CHOOSE i \in hits : \A j \in hits : i <= j].value

\* teamCompare scoring the roles as written, not lower-cased.
teamCompare_caseSensitive(a, b) ==
    LET aScore == roleScore(a.role)
        bScore == roleScore(b.role)
    IN IF aScore # bScore THEN bScore - aScore
       ELSE localeCompare(a.name, b.name)

\* collectTeam, lines 191-200
teamCompare(a, b) ==
    LET aScore == roleScore(toLowerCase(a.role))
        bScore == roleScore(toLowerCase(b.role))
    IN IF aScore # bScore THEN bScore - aScore
       ELSE localeCompare(a.name, b.name)

compareFn(c, a, b) ==
    CASE c = "projects" -> projectsCompare(a, b)
      [] c = "news" -> newsCompare(a, b)
      [] c = "team" -> teamCompare(a, b)

(***************************************************************************)
(* Array.prototype.sort, as Node's engine sorts an array shorter than 64   *)
(* elements: the leading run is found (and reversed when it is strictly    *)
(* descending), then every later element is put in place by binary         *)
(* insertion.  With a consistent comparator this is the stable sort every  *)
(* engine must produce; with an inconsistent one ECMAScript leaves the     *)
(* order to the engine, and this is the order the engine gives.            *)
(***************************************************************************)
Sign(n) == IF n < 0 THEN -1 ELSE IF n > 0 THEN 1 ELSE 0

\* The length of the run that starts s: elements 1..k are known to be in
\* the run.
RECURSIVE RunLength(_, _, _, _)
RunLength(c, s, descending, k) ==
    IF k = Len(s) THEN k
    ELSE LET order == compareFn(c, s[k + 1], s[k]) IN
         IF (descending /\ order >= 0) \/ (~descending /\ order < 0) THEN k
         ELSE RunLength(c, s, descending, k + 1)

Reverse(s) == [i \in 1..Len(s) |-> s[Len(s) + 1 - i]]

\* The binary search of the place of pivot among sorted[left..right-1].
RECURSIVE InsertionPoint(_, _, _, _, _)
InsertionPoint(c, sorted, pivot, left, right) ==
    IF left >= right THEN left
    ELSE LET mid == left + ((right - left) \div 2) IN
         IF compareFn(c, pivot, sorted[mid]) < 0
         THEN InsertionPoint(c, sorted, pivot, left, mid)
         ELSE InsertionPoint(c, sorted, pivot, mid + 1, right)

\* Elements 1..start-1 of s are in place; the others are inserted in turn.
RECURSIVE BinaryInsertionSort(_, _, _)
BinaryInsertionSort(c, s, start) ==
    IF start > Len(s) THEN s
    ELSE LET pivot == s[start]
             at == InsertionPoint(c, s, pivot, 1, start)
         IN BinaryInsertionSort(c,
               SubSeq(s, 1, at - 1) \o <<pivot>> \o SubSeq(s, at, start - 1)
                  \o SubSeq(s, start + 1, Len(s)),
               start + 1)

ArraySort(c, s) ==
    IF Len(s) < 2 THEN s
    ELSE LET descending == compareFn(c, s[2], s[1]) < 0
             run == RunLength(c, s, descending, 2)
             made == IF descending
                     THEN Reverse(SubSeq(s, 1, run)) \o SubSeq(s, run + 1, Len(s))
                     ELSE s
         IN BinaryInsertionSort(c, made, run + 1)

(***************************************************************************)
(* The filesystem snapshot                                                 *)
(*                                                                         *)
(* fs.mkdir        whether fs.mkdir(PUBLIC_DATA) succeeds                  *)
(* fs.dir[c]       content/<c>: [status, entries]; status "ok", "ENOENT"   *)
(*                 or "EACCES"; an entry is [name, isDir, meta, files,     *)
(*                 gallery] with meta the text of meta.txt or NoFile,      *)
(*                 files the set of image files present, gallery the       *)
(*                 gallery directory as [status, entries]                  *)
(* fs.stats        the text of content/stats/stats.txt, or NoFile          *)
(***************************************************************************)
Collections == {"projects", "news", "team"}
Procs == Collections \cup {"stats", "main"}

\* readDirIfExists, lines 32-38: every failure of readdir yields [].
readDirIfExists(d) ==
    IF d.status = "ok"
    THEN [i \in 1..Len(d.entries) |->
            [name |-> d.entries[i].name, isDir |-> d.entries[i].isDir]]
    ELSE <<>>

\* The directory of collection c whose name is slug.
EntryOf(c, slug) ==
    LET es == fs.dir[c].entries IN
    es[CHOOSE i \in 1..Len(es) : es[i].name = slug]

coverCandidates == <<"cover.png", "cover.jpg", "cover.jpeg", "cover.webp">>
photoCandidates == <<"photo.png", "photo.jpg", "photo.jpeg", "photo.webp">>
\* The candidates with webp tried before jpg and jpeg.
Candidates_webpFirst(c) ==
    IF c = "team" THEN <<"photo.png", "photo.webp", "photo.jpg", "photo.jpeg">>
                  ELSE <<"cover.png", "cover.webp", "cover.jpg", "cover.jpeg">>
Candidates(c) == IF c = "team" THEN photoCandidates ELSE coverCandidates

\* `/content/${c}/${slug}/${file}`
PublicPath(c, slug, file) == <<"/content/", c, "/">> \o slug \o <<"/", file>>

\* (meta.tags ?? "").split(",").map(s => s.trim()).filter(Boolean)
Tags(raw) ==
    LET parts == Split(raw, <<",">>)
        trimmed == [i \in 1..Len(parts) |-> Trim(parts[i])]
    IN SelectSeq(trimmed, LAMBDA t : t # <<>>)

\* lines 77-88
projectRecord(slug, m, cv, gallery) ==
    [ slug |-> slug,
      title |-> GetOr(m, K_title, slug),
      date |-> GetOr(m, K_date, Null),
      tags |-> Tags(GetOr(m, K_tags, <<>>)),
      status |-> GetOr(m, K_status, <<"a","c","t","i","v","e">>),
      links |-> GetOr(m, K_links, Null),
      cover |-> cv,
      gallery |-> gallery,
      description |-> GetOr(m, K_description, <<>>),
      path |-> <<"/content/", "projects", "/">> \o slug \o <<"/">> ]

\* lines 130-138
newsRecord(slug, m, cv) ==
    [ slug |-> slug,
      title |-> GetOr(m, K_title, slug),
      date |-> GetOr(m, K_date, Null),
      author |-> GetOr(m, K_author, <<"S","k","y","l","i","n","k">>),
      cover |-> cv,
      description |-> GetOr(m, K_description, <<>>),
      path |-> <<"/content/", "news", "/">> \o slug \o <<"/">> ]

\* lines 174-182
teamRecord(slug, m, ph) ==
    [ slug |-> slug,
      name |-> GetOr(m, K_name, slug),
      role |-> GetOr(m, K_role, <<>>),
      email |-> GetOr(m, K_email, <<>>),
      links |-> GetOr(m, K_links, <<>>),
      photo |-> ph,
      bio |-> GetOr(m, K_description, <<>>) ]

\* The gallery loop, lines 69-75.
galleryOf(slug, g) ==
    LET listing == readDirIfExists(g)
        files == SelectSeq(listing, LAMBDA e : ~e.isDir)
    IN [i \in 1..Len(files) |->
          <<"/content/", "projects", "/">> \o slug \o <<"/gallery/", files[i].name>>]

\* One cover variable shared by the three collectors.
CoverVar_shared(c) == "projects"

\* The variable holding the cover (photo) found for the entry in hand:
\* `let cover = null` (`let photo = null`) is declared inside each collector's
\* loop body (lines 60, 121, 165), so each collector has its own.
CoverVar(c) == c

(***************************************************************************)
(* The collectors.  A collector runs from one await to the next without    *)
(* interruption; each action is the completion of the await a collector is *)
(* suspended at, followed by the code up to its next await.                *)
(***************************************************************************)
\* The next entry at or after position from that passes
\* `if (!dirent.isDirectory()) continue`, or 0 when the loop is over.
NextDir(its, from) ==
    LET ds == {j \in from..Len(its) : its[j].isDir} IN
    IF ds = {} THEN 0 ELSE CHOOSE j \in ds : \A k \in ds : j <= k

\* The for loop resumes at position from with the list o: either it suspends
\* at the readFile of the next directory, or it ends, the list is sorted and
\* returned.
Resume(c, its, from, o) ==
    LET j == NextDir(its, from) IN
    /\ meta' = [meta EXCEPT ![c] = EmptyObj]
    /\ cand' = [cand EXCEPT ![c] = 0]
    /\ cover' = [cover EXCEPT ![CoverVar(c)] = Null]
    /\ IF j # 0
       THEN /\ idx' = [idx EXCEPT ![c] = j]
            /\ pc' = [pc EXCEPT ![c] = "readFile"]
            /\ out' = [out EXCEPT ![c] = o]
            /\ result' = result
       ELSE \E r \in {ArraySort(c, o)} :
            /\ idx' = [idx EXCEPT ![c] = Len(its) + 1]
            /\ pc' = [pc EXCEPT ![c] = "done"]
            /\ out' = [out EXCEPT ![c] = r]
            /\ result' = [result EXCEPT ![c] = r]

\* `await readDirIfExists(base)` completes; `const out = []`.
ReadDirDone(c) ==
    /\ pc[c] = "readdir"
    /\ LET its == readDirIfExists(fs.dir[c]) IN
       /\ items' = [items EXCEPT ![c] = its]
       /\ Resume(c, its, 1, <<>>)
    /\ UNCHANGED <<fs, written, warned, arg, ret>>

\* ReadFileDone leaving the loop at the first directory without meta.txt.
ReadFileDone_break(c) ==
    /\ pc[c] = "readFile"
    /\ LET slug == items[c][idx[c]].name
           metaTxt == EntryOf(c, slug).meta
       IN IF metaTxt = NoFile
          THEN /\ warned' = warned \cup {<<c, slug>>}
               /\ Resume(c, items[c], Len(items[c]) + 1, out[c])
          ELSE /\ meta' = [meta EXCEPT ![c] = parseMetaTxt(metaTxt)]
               /\ cand' = [cand EXCEPT ![c] = 1]
               /\ cover' = [cover EXCEPT ![CoverVar(c)] = Null]
               /\ pc' = [pc EXCEPT ![c] = "access"]
               /\ UNCHANGED <<idx, out, result, warned>>
    /\ UNCHANGED <<fs, items, written, arg, ret>>

\* `await fs.readFile(metaPath, "utf8")` completes: on failure warn and
\* continue, otherwise parse and probe the first candidate.
ReadFileDone(c) ==
    /\ pc[c] = "readFile"
    /\ LET slug == items[c][idx[c]].name
           metaTxt == EntryOf(c, slug).meta
       IN IF metaTxt = NoFile
          THEN /\ warned' = warned \cup {<<c, slug>>}
               /\ Resume(c, items[c], idx[c] + 1, out[c])
          ELSE /\ meta' = [meta EXCEPT ![c] = parseMetaTxt(metaTxt)]
               /\ cand' = [cand EXCEPT ![c] = 1]
               /\ cover' = [cover EXCEPT ![CoverVar(c)] = Null]
               /\ pc' = [pc EXCEPT ![c] = "access"]
               /\ UNCHANGED <<idx, out, result, warned>>
    /\ UNCHANGED <<fs, items, written, arg, ret>>

\* `await fs.access(...)` of candidate cand[c] completes.  Success sets the
\* cover and breaks; failure tries the next candidate.  After the loop the
\* projects collector lists the gallery, the others push their record.
AccessDone(c) ==
    /\ pc[c] = "access"
    /\ LET slug == items[c][idx[c]].name
           file == Candidates(c)[cand[c]]
           found == file \in EntryOf(c, slug).files
           cv == IF found THEN PublicPath(c, slug, file) ELSE cover[CoverVar(c)]
       IN IF ~found /\ cand[c] < Len(Candidates(c))
          THEN /\ cand' = [cand EXCEPT ![c] = cand[c] + 1]
               /\ UNCHANGED <<pc, idx, meta, cover, out, result>>
          ELSE IF c = "projects"
          THEN /\ cover' = [cover EXCEPT ![CoverVar(c)] = cv]
               /\ pc' = [pc EXCEPT ![c] = "gallery"]
               /\ UNCHANGED <<idx, meta, cand, out, result>>
          ELSE Resume(c, items[c], idx[c] + 1,
                  Append(out[c],
                     IF c = "news" THEN newsRecord(slug, meta[c], cv)
                                   ELSE teamRecord(slug, meta[c], cv)))
    /\ UNCHANGED <<fs, items, written, warned, arg, ret>>

\* collectProjects: `await readDirIfExists(gdir)` completes; the record is
\* pushed.
GalleryDone ==
    /\ pc["projects"] = "gallery"
    /\ LET slug == items["projects"][idx["projects"]].name
           gallery == galleryOf(slug, EntryOf("projects", slug).gallery)
       IN Resume("projects", items["projects"], idx["projects"] + 1,
             Append(out["projects"],
                projectRecord(slug, meta["projects"], cover[CoverVar("projects")], gallery)))
    /\ UNCHANGED <<fs, items, written, warned, arg, ret>>

(***************************************************************************)
(* collectStats                                                            *)
(***************************************************************************)
Digits == <<"0","1","2","3","4","5","6","7","8","9">>
HexDigits == <<"0","1","2","3","4","5","6","7","8","9","a","b","c","d","e","f">>

IsDigits(s) == s # <<>> /\ \A i \in 1..Len(s) : IsIn(Digits, s[i])
IsHexDigits(s) == s # <<>> /\ \A i \in 1..Len(s) : IsIn(HexDigits, LowerChar(s[i]))

RECURSIVE DecValue(_)
DecValue(s) ==
    IF s = <<>> THEN 0
    ELSE 10 * DecValue(SubSeq(s, 1, Len(s) - 1)) + (PosIn(Digits, s[Len(s)]) - 1)

RECURSIVE HexValue(_)
HexValue(s) ==
    IF s = <<>> THEN 0
    ELSE 16 * HexValue(SubSeq(s, 1, Len(s) - 1))
           + (PosIn(HexDigits, LowerChar(s[Len(s)])) - 1)

\* Number(valueRaw), ECMAScript StringToNumber, on trimmed strings that hold
\* no ".", no exponent and no binary or octal prefix: the empty string is 0,
\* a signed or unsigned run of digits is its decimal value, 0x/0X followed by
\* hex digits is its hexadecimal value (no sign allowed), anything else is
\* NaN.  The values are far below 2^53, so every one is exact and finite.
Number(s) ==
    IF s = <<>> THEN [finite |-> TRUE, value |-> 0]
    ELSE IF IsDigits(s) THEN [finite |-> TRUE, value |-> DecValue(s)]
    ELSE IF Head(s) = "+" /\ IsDigits(Tail(s))
         THEN [finite |-> TRUE, value |-> DecValue(Tail(s))]
    ELSE IF Head(s) = "-" /\ IsDigits(Tail(s))
         THEN [finite |-> TRUE, value |-> 0 - DecValue(Tail(s))]
    ELSE IF Len(s) > 2 /\ s[1] = "0" /\ s[2] \in {"x", "X"} /\ IsHexDigits(SubSeq(s, 3, Len(s)))
         THEN [finite |-> TRUE, value |-> HexValue(SubSeq(s, 3, Len(s)))]
    ELSE [finite |-> FALSE, value |-> 0]

\* The for loop of collectStats, lines 210-218.
RECURSIVE StatsLoop(_, _)
StatsLoop(lines, map) ==
    IF lines = <<>> THEN map
    ELSE LET line == Head(lines)
             i == IndexOf(line, <<":">>)
             key == Trim(SubSeq(line, 1, i - 1))
             valueRaw == Trim(SubSeq(line, i + 1, Len(line)))
             num == Number(valueRaw)
         IN IF Trim(line) = <<>> THEN StatsLoop(Tail(lines), map)
            ELSE IF i = 0 THEN StatsLoop(Tail(lines), map)
            ELSE StatsLoop(Tail(lines),
                    Put(map, key,
                        IF num.finite THEN [type |-> "number", num |-> num.value, str |-> <<>>]
                                      ELSE [type |-> "string", num |-> 0, str |-> valueRaw]))

collectStats(txt) ==
    IF txt = NoFile THEN EmptyObj ELSE StatsLoop(SplitLines(txt), EmptyObj)

\* `await fs.readFile(f, "utf8")` completes; the map is built and returned.
StatsDone ==
    /\ pc["stats"] = "readFile"
    /\ result' = [result EXCEPT !["stats"] = collectStats(fs.stats)]
    /\ pc' = [pc EXCEPT !["stats"] = "done"]
    /\ UNCHANGED <<fs, items, idx, meta, cand, cover, out, written, warned, arg, ret>>

(***************************************************************************)
(* main                                                                    *)
(***************************************************************************)
Artifacts == <<"projects", "news", "team", "stats">>

\* `await ensureDir(PUBLIC_DATA)` completes.  On success the four collectors
\* are called in turn, each running to its first await, and main suspends at
\* Promise.all; on failure main rejects and the catch handler exits with 1.
EnsureDirDone ==
    /\ pc["main"] = "ensureDir"
    /\ pc' = IF fs.mkdir
             THEN [p \in Procs |->
                     IF p = "main" THEN "awaitAll"
                     ELSE IF p = "stats" THEN "readFile" ELSE "readdir"]
             ELSE [pc EXCEPT !["main"] = "exit1"]
    /\ UNCHANGED <<fs, items, idx, meta, cand, cover, out, result, written, warned, arg, ret>>

\* Promise.all resolves once the four collectors have returned; main issues
\* the first writeFile.
AllDone ==
    /\ pc["main"] = "awaitAll"
    /\ \A p \in Procs \ {"main"} : pc[p] = "done"
    /\ pc' = [pc EXCEPT !["main"] = "writeFile"]
    /\ UNCHANGED <<fs, items, idx, meta, cand, cover, out, result, written, warned, arg, ret>>

\* A writeFile completes (data is the value JSON.stringify was given); main
\* issues the next one, or logs and ends with status 0.
WriteFileDone ==
    /\ pc["main"] = "writeFile"
    /\ LET k == Len(written) + 1 IN
       /\ written' = Append(written, [file |-> Artifacts[k], data |-> result[Artifacts[k]]])
       /\ pc' = [pc EXCEPT !["main"] = IF k = Len(Artifacts) THEN "exit0" ELSE "writeFile"]
    /\ UNCHANGED <<fs, items, idx, meta, cand, cover, out, result, warned, arg, ret>>

(***************************************************************************)
(* Inputs                                                                  *)
(***************************************************************************)
\* Bounds of the inputs enumerated.
MaxEntries == 3
MaxLines == 4
MaxValLen == 3
MaxWords == 3

NoGallery == [status |-> "ENOENT", entries |-> <<>>]
SomeGallery ==
    [status |-> "ok",
     entries |-> << [name |-> "1.png", isDir |-> FALSE],
                    [name |-> "raw", isDir |-> TRUE],
                    [name |-> "2.jpg", isDir |-> FALSE] >>]

FileEntry(name) ==
    [name |-> name, isDir |-> FALSE, meta |-> NoFile, files |-> {}, gallery |-> NoGallery]
DirEntry(name, metaTxt, files, gallery) ==
    [name |-> name, isDir |-> TRUE, meta |-> metaTxt, files |-> files, gallery |-> gallery]

AbsentDir == [status |-> "ENOENT", entries |-> <<>>]
NoStats == NoFile

\* Directory names, in an order that is neither their collation order
\* (a, B, c, d, E) nor their code-unit order (B, E, a, c, d).
SlugList == << <<"c">>, <<"a">>, <<"B">>, <<"E">>, <<"d">> >>
SlugPool == {SlugList[i] : i \in 1..MaxEntries}

\* Listings of n distinct names of the pool, in every order.
NameSeqs(n) ==
    {q \in [1..n -> SlugPool] : \A i, j \in 1..n : q[i] = q[j] => i = j}

\* meta.txt texts whose fields decide the sort, per collection.
SortMetas(c) ==
    CASE c = "projects" ->
           { <<"d","a","t","e",":"," ","2","0","2","4",LF>>,
             <<"d","a","t","e",":"," ","2","0","2","4","-","0","6",LF,"t","i","t","l","e",":"," ","Z","e","t","a",LF>>,
             <<"t","i","t","l","e",":"," ","Z","e","t","a",LF,"t","a","g","s",":"," ","a",","," ","b"," ",",",","," ","c",LF,"-","-","-",LF,"T","e","x","t",LF>>,
             <<"d","a","t","e",":",LF>> }
      [] c = "news" ->
           { <<"d","a","t","e",":"," ","2","0","2","4",LF>>,
             <<"d","a","t","e",":"," ","2","0","2","4","-","0","6",CR,LF,"a","u","t","h","o","r",":"," ","A","l","a",CR,LF>>,
             <<"t","i","t","l","e",":"," ","N","e","w","s",LF,"-","-","-",LF,"B","o","d","y",LF>> }
      [] c = "team" ->
           { <<"r","o","l","e",":"," ","P","r","e","s","i","d","e","n","t",LF>>,
             <<"n","a","m","e",":"," ","A","l","a",LF,"r","o","l","e",":"," ","T","e","a","m"," ","L","e","a","d","e","r",LF>>,
             <<"n","a","m","e",":"," ","b","o","b",LF,"r","o","l","e",":"," ","H","e","a","d"," ","o","f"," ","L","o","g","i","s","t","i","c","s",LF,"-","-","-",LF,"B","i","o",LF>>,
             <<>> }

\* Every listing of at most MaxEntries item directories, each with a
\* meta.txt of SortMetas and the first image candidate.
SortSnapshots(c) ==
    UNION { { [status |-> "ok",
               entries |-> [i \in 1..n |->
                              DirEntry(names[i], metas[i], {Candidates(c)[1]}, NoGallery)]] :
                names \in NameSeqs(n), metas \in [1..n -> SortMetas(c)] } :
            n \in 0..MaxEntries }

\* The kinds of entry of a collection root: a plain file, a directory without
\* meta.txt, a directory with meta.txt and no image, one with images.
ItemKinds(c, name) ==
    { FileEntry(name),
      DirEntry(name, NoFile, {Candidates(c)[1]}, NoGallery),
      DirEntry(name, <<"t","i","t","l","e",":"," ","T",LF>>, {}, NoGallery),
      DirEntry(name, <<"n","a","m","e",":"," ","N",LF,"-","-","-",LF,"T","e","x","t",LF>>, {Candidates(c)[2], Candidates(c)[4]}, SomeGallery) }

ItemSnapshots(c) ==
    UNION { { [status |-> st, entries |-> es] :
                st \in {"ok", "ENOENT", "EACCES"},
                es \in {e \in [1..n -> UNION {ItemKinds(c, SlugList[i]) : i \in 1..n}] :
                           \A i \in 1..n : e[i].name = SlugList[i]} } :
            n \in 0..MaxEntries }

\* One item directory with every subset of the four candidate files.
CoverSnapshots(c) ==
    { [status |-> "ok",
       entries |-> << DirEntry(SlugList[1], <<"t","i","t","l","e",":"," ","T",LF>>, files, NoGallery) >>] :
        files \in SUBSET {Candidates(c)[i] : i \in 1..Len(Candidates(c))} }

\* The worked examples: projects A, B, C, D and the four team roles.
ExampleSnapshots(c) ==
    CASE c = "projects" ->
           { [status |-> "ok",
              entries |-> << DirEntry(<<"A">>, <<"d","a","t","e",":"," ","2","0","2","4","-","0","1","-","0","1",LF>>, {}, NoGallery),
                             DirEntry(<<"B">>, <<"d","a","t","e",":"," ","2","0","2","4","-","0","6","-","0","1",LF>>, {}, NoGallery),
                             DirEntry(<<"C">>, <<"t","i","t","l","e",":"," ","Z","e","t","a",LF>>, {}, NoGallery),
                             DirEntry(<<"D">>, <<"t","i","t","l","e",":"," ","A","l","f","a",LF>>, {}, NoGallery) >>] }
      [] c = "news" -> {}
      [] c = "team" ->
           { [status |-> "ok",
              entries |-> << DirEntry(<<"a">>, <<"r","o","l","e",":"," ","T","e","a","m"," ","L","e","a","d","e","r",LF>>, {}, NoGallery),
                             DirEntry(<<"b">>, <<"r","o","l","e",":"," ","P","r","e","s","i","d","e","n","t",LF>>, {}, NoGallery),
                             DirEntry(<<"c">>, <<"r","o","l","e",":"," ","M","e","m","b","e","r",LF>>, {}, NoGallery),
                             DirEntry(<<"d">>, <<"r","o","l","e",":"," ","H","e","a","d"," ","o","f"," ","L","o","g","i","s","t","i","c","s",LF>>, {}, NoGallery) >>] }

\* Listings for the run of main: a plain file and an item with images and a
\* gallery; a directory without meta.txt and two items.
Listing1(c) ==
    << FileEntry(SlugList[1]),
       DirEntry(SlugList[2], <<"n","a","m","e",":"," ","N",LF,"-","-","-",LF,"T","e","x","t",LF>>, {Candidates(c)[2], Candidates(c)[4]}, SomeGallery) >>
Listing2(c) ==
    << DirEntry(SlugList[1], NoFile, {}, NoGallery),
       DirEntry(SlugList[2], <<"t","i","t","l","e",":"," ","T",LF>>, {}, NoGallery),
       DirEntry(SlugList[3], <<"d","a","t","e",":"," ","2","0","2","4",LF>>, {Candidates(c)[1]}, NoGallery) >>

MainDirs(c) ==
    { AbsentDir,
      [status |-> "EACCES", entries |-> Listing1(c)],
      [status |-> "ok", entries |-> Listing1(c)],
      [status |-> "ok", entries |-> Listing2(c)] }

StatsExample == <<"u","s","e","r","s",":"," ","4","2",LF,"a","c","t","i","v","e",":"," ","t","r","u","e">>

MainSnapshots ==
    { [mkdir |-> m,
       dir |-> [c \in Collections |->
                  IF c = "projects" THEN dp ELSE IF c = "news" THEN dn ELSE dt],
       stats |-> st] :
        m \in BOOLEAN,
        dp \in MainDirs("projects"), dn \in MainDirs("news"), dt \in MainDirs("team"),
        st \in {NoStats, StatsExample} }

\* Sequences over S of length at most n.
SeqsUpTo(S, n) == UNION {[1..k -> S] : k \in 0..n}

\* Stats documents: one line `users:` with every value of at most MaxValLen
\* characters, with or without a space, followed by nothing or by more lines,
\* with LF or CRLF line ends.
StatChars == {"4", "2", "0", "x", "t", "-"}
StatsDocs ==
    { <<"u","s","e","r","s",":">> \o sp \o v \o rest :
        sp \in {<<>>, <<" ">>},
        v \in SeqsUpTo(StatChars, MaxValLen),
        rest \in { <<>>, <<LF,"a","c","t","i","v","e",":"," ","t","r","u","e">>, <<CR,LF,"n","o","k","e","y",CR,LF,"a","c","t","i","v","e",":"," ","t","r","u","e",CR,LF>> } }

\* Metadata documents as lines with their line ends: at most MaxLines lines,
\* each ended by LF or CRLF, the last one possibly not ended.
ParseLines ==
    { <<>>, <<"-","-","-">>, <<"a",":","x">>, <<"b",":"," ","y">>, <<"z">> }
ParseEols == {<<LF>>, <<CR, LF>>, <<>>}
ParseDocs(n) ==
    { [i \in 1..n |-> [line |-> ls[i], eol |-> es[i]]] :
        ls \in [1..n -> ParseLines],
        es \in {e \in [1..n -> ParseEols] : \A i \in 1..(n - 1) : e[i] # <<>>} }

RECURSIVE Flatten(_)
Flatten(doc) ==
    IF doc = <<>> THEN <<>>
    ELSE doc[1].line \o doc[1].eol \o Flatten(Tail(doc))

\* Role strings: at most MaxWords words separated by single spaces.
RoleWords ==
    { <<"P","r","e","s","i","d","e","n","t">>, <<"T","e","a","m">>, <<"L","e","a","d","e","r">>, <<"H","e","a","d">>, <<"o","f">>, <<"L","o","g","i","s","t","i","c","s">>, <<"M","e","m","b","e","r">> }
RECURSIVE JoinWords(_)
JoinWords(ws) ==
    IF ws = <<>> THEN <<>>
    ELSE IF Len(ws) = 1 THEN ws[1]
    ELSE ws[1] \o <<" ">> \o JoinWords(Tail(ws))
Roles == {JoinWords(ws) : ws \in SeqsUpTo(RoleWords, MaxWords)}

(***************************************************************************)
(* Function calls studied on their own                                     *)
(***************************************************************************)
CallParseMetaTxt ==
    /\ pc["main"] = "call"
    /\ arg.fn = "parseMetaTxt"
    /\ ret' = parseMetaTxt(Flatten(arg.doc))
    /\ pc' = [pc EXCEPT !["main"] = "returned"]
    /\ UNCHANGED <<fs, items, idx, meta, cand, cover, out, result, written, warned, arg>>

\* The score of one member, as the comparator of collectTeam computes it.
CallRoleScore ==
    /\ pc["main"] = "call"
    /\ arg.fn = "roleScore"
    /\ ret' = roleScore(toLowerCase(arg.role))
    /\ pc' = [pc EXCEPT !["main"] = "returned"]
    /\ UNCHANGED <<fs, items, idx, meta, cand, cover, out, result, written, warned, arg>>

(***************************************************************************)
(* Specifications                                                          *)
(***************************************************************************)
InitLocals ==
    /\ items = [c \in Collections |-> <<>>]
    /\ idx = [c \in Collections |-> 0]
    /\ meta = [c \in Collections |-> EmptyObj]
    /\ cand = [c \in Collections |-> 0]
    /\ cover = [c \in Collections |-> Null]
    /\ out = [c \in Collections |-> <<>>]
    /\ result = [p \in Procs \ {"main"} |-> Null]
    /\ written = <<>>
    /\ warned = {}
    /\ ret = Null

EmptyFs ==
    [mkdir |-> TRUE, dir |-> [c \in Collections |-> AbsentDir], stats |-> NoStats]

\* The script as run: main on a filesystem snapshot.
Init ==
    /\ InitLocals
    /\ fs \in MainSnapshots
    /\ pc = [p \in Procs |-> IF p = "main" THEN "ensureDir" ELSE "idle"]
    /\ arg = [fn |-> "main"]

Collect(c) ==
    \/ ReadDirDone(c)
    \/ ReadFileDone(c)
    \/ AccessDone(c)

Next ==
    \/ EnsureDirDone
    \/ \E c \in Collections : Collect(c)
    \/ GalleryDone
    \/ StatsDone
    \/ AllDone
    \/ WriteFileDone

Spec == Init /\ [][Next]_vars

\* One collector called on its own, on every listing of its family.
InitCollect ==
    /\ InitLocals
    /\ \E c \in Collections :
         /\ \E d \in SortSnapshots(c) \cup ItemSnapshots(c) \cup CoverSnapshots(c)
                       \cup ExampleSnapshots(c) :
               fs = [EmptyFs EXCEPT !.dir[c] = d]
         /\ pc = [p \in Procs |-> IF p = c THEN "readdir" ELSE "idle"]
    /\ arg = [fn |-> "collect"]

NextCollect ==
    \/ \E c \in Collections : Collect(c)
    \/ GalleryDone

SpecCollect == InitCollect /\ [][NextCollect]_vars

\* collectStats called on its own.
InitStats ==
    /\ InitLocals
    /\ \E st \in StatsDocs \cup {NoStats} : fs = [EmptyFs EXCEPT !.stats = st]
    /\ pc = [p \in Procs |-> IF p = "stats" THEN "readFile" ELSE "idle"]
    /\ arg = [fn |-> "collectStats"]

SpecStats == InitStats /\ [][StatsDone]_vars

\* parseMetaTxt called on its own.
InitParse ==
    /\ InitLocals
    /\ fs = EmptyFs
    /\ pc = [p \in Procs |-> IF p = "main" THEN "call" ELSE "idle"]
    /\ \E n \in 1..MaxLines : \E d \in ParseDocs(n) :
          arg = [fn |-> "parseMetaTxt", doc |-> d]

SpecParse == InitParse /\ [][CallParseMetaTxt]_vars

\* The role score called on its own.
InitScore ==
    /\ InitLocals
    /\ fs = EmptyFs
    /\ pc = [p \in Procs |-> IF p = "main" THEN "call" ELSE "idle"]
    /\ \E r \in Roles : arg = [fn |-> "roleScore", role |-> r]

SpecScore == InitScore /\ [][CallRoleScore]_vars

(***************************************************************************)
(* Claims                                                                  *)
(***************************************************************************)
DelimiterLine == <<"-", "-", "-">>

\* The position of the first line of doc that is exactly ---, or 0.
FirstDelimiter(doc) ==
    LET ds == {i \in 1..Len(doc) : doc[i].line = DelimiterLine} IN
    IF ds = {} THEN 0 ELSE CHOOSE i \in ds : \A j \in ds : i <= j

\* The key: value pairs of a sequence of lines, a later pair of a key
\* replacing an earlier one.
RECURSIVE PairsOf(_)
PairsOf(doc) ==
    IF doc = <<>> THEN EmptyObj
    ELSE LET line == doc[Len(doc)].line
             before == PairsOf(SubSeq(doc, 1, Len(doc) - 1))
             colons == {i \in 1..Len(line) : line[i] = ":"}
             i == CHOOSE k \in colons : \A j \in colons : k <= j
         IN IF colons = {} THEN before
            ELSE Put(before, Trim(SubSeq(line, 1, i - 1)), Trim(SubSeq(line, i + 1, Len(line))))

Parsed == pc["main"] = "returned" /\ arg.fn = "parseMetaTxt"

\* C1: for every text with a line that is exactly ---, parseMetaTxt returns
\* the key: value pairs of the lines before the first such line and, as
\* description, the trimmed text after it, wherever that line sits and for
\* LF and CRLF line ends alike.
C1_DelimiterAnywhere ==
    (Parsed /\ FirstDelimiter(arg.doc) # 0) =>
        LET d == FirstDelimiter(arg.doc) IN
        ret = Put(PairsOf(SubSeq(arg.doc, 1, d - 1)), K_description,
                  Trim(Flatten(SubSeq(arg.doc, d + 1, Len(arg.doc)))))

\* The same for texts whose first --- line is not the first line and has LF
\* on both sides (the case the split expression recognises).
C1_DelimiterBetweenLF ==
    (/\ Parsed
     /\ FirstDelimiter(arg.doc) > 1
     /\ arg.doc[FirstDelimiter(arg.doc) - 1].eol = <<LF>>
     /\ arg.doc[FirstDelimiter(arg.doc)].eol = <<LF>>) =>
        LET d == FirstDelimiter(arg.doc) IN
        ret = Put(PairsOf(SubSeq(arg.doc, 1, d - 1)), K_description,
                  Trim(Flatten(SubSeq(arg.doc, d + 1, Len(arg.doc)))))

Done(c) == pc[c] = "done"

SlugsOf(r) == [i \in 1..Len(r) |-> r[i].slug]
NamesOf(its) == [i \in 1..Len(its) |-> its[i].name]

\* Code-unit order of the characters, and the lexicographic order of strings
\* it induces.
CodeUnit(ch) ==
    IF IsIn(LowerLetters, ch) THEN 96 + PosIn(LowerLetters, ch)
    ELSE IF IsIn(UpperLetters, ch) THEN 64 + PosIn(UpperLetters, ch)
    ELSE IF IsIn(Digits, ch) THEN 47 + PosIn(Digits, ch)
    ELSE IF ch = "-" THEN 45
    ELSE 32

RECURSIVE LexLeq(_, _)
LexLeq(x, y) ==
    IF x = <<>> THEN TRUE
    ELSE IF y = <<>> THEN FALSE
    ELSE IF CodeUnit(Head(x)) # CodeUnit(Head(y)) THEN CodeUnit(Head(x)) < CodeUnit(Head(y))
    ELSE LexLeq(Tail(x), Tail(y))

\* A record has a date when its date is neither null nor empty.
HasDate(r) == r.date # Null /\ r.date # <<>>

\* The keywords of the table that occur in the lower-cased role.
KeywordsIn(role) ==
    {i \in 1..Len(rolePriority) : Includes(toLowerCase(role), rolePriority[i].key)}

ArrayPermutations(s) ==
    {[i \in 1..Len(s) |-> s[p[i]]] :
        p \in {q \in [1..Len(s) -> 1..Len(s)] : \A i, j \in 1..Len(s) : q[i] = q[j] => i = j}}

MaxOf(S) == IF S = {} THEN 0 ELSE CHOOSE m \in S : \A n \in S : n <= m

Scored == pc["main"] = "returned" /\ arg.fn = "roleScore"

\* C10: the score of a role, taken from the first keyword in table order that
\* occurs in the lower-cased role, is the greatest value among the keywords
\* that occur in it (0 when none does).
C10_FirstMatchIsMax ==
    Scored => ret = MaxOf({rolePriority[i].value : i \in KeywordsIn(arg.role)})

\* A role holding several keywords has been scored.
C10_Witness ==
    Scored /\ Cardinality(KeywordsIn(arg.role)) >= 2 /\ ret = 2

\* The score the claim attaches to a role: president 3, leader 2, head 1,
\* looked for in that order in the lower-cased role, else 0.
ClaimedScore(role) ==
    LET r == toLowerCase(role) IN
    IF Includes(r, <<"p","r","e","s","i","d","e","n","t">>) THEN 3
    ELSE IF Includes(r, <<"l","e","a","d","e","r">>) THEN 2
    ELSE IF Includes(r, <<"h","e","a","d">>) THEN 1
    ELSE 0

FourRoles == << <<"P","r","e","s","i","d","e","n","t">>, <<"T","e","a","m"," ","L","e","a","d","e","r">>, <<"H","e","a","d"," ","o","f"," ","L","o","g","i","s","t","i","c","s">>, <<"M","e","m","b","e","r">> >>

RolesOf(r) == [i \in 1..Len(r) |-> r[i].role]

\* C4: collectTeam returns the members by score descending, members of equal
\* score by name ascending; the roles President, Team Leader, Head of
\* Logistics and Member come out in that order.
C4_TeamOrder ==
    Done("team") =>
        LET r == result["team"] IN
        /\ \A i, j \in 1..Len(r) :
              i < j =>
                /\ ClaimedScore(r[i].role) >= ClaimedScore(r[j].role)
                /\ ClaimedScore(r[i].role) = ClaimedScore(r[j].role)
                      => localeCompare(r[i].name, r[j].name) <= 0
        /\ RolesOf(r) \in ArrayPermutations(FourRoles) => RolesOf(r) = FourRoles

\* The four roles, listed in another order, have been sorted.
C4_Witness ==
    /\ Done("team")
    /\ RolesOf(result["team"]) = FourRoles
    /\ SlugsOf(result["team"]) # NamesOf(items["team"])


\* The order the claim gives two project records.
ProjectsInOrder(a, b) ==
    /\ (HasDate(a) /\ HasDate(b)) => LexLeq(b.date, a.date)
    /\ ~(~HasDate(a) /\ HasDate(b))
    /\ (~HasDate(a) /\ ~HasDate(b)) => localeCompare(a.title, b.title) <= 0

\* C2: collectProjects returns the dated records first, newest first, then
\* the dateless ones by title; its comparator is a total preorder, so records
\* with distinct keys come out in the same order whatever the listing order.
C2_ProjectsOrder ==
    Done("projects") =>
        LET r == result["projects"]
            N == 1..Len(r)
        IN /\ \A i, j \in N : i < j => ProjectsInOrder(r[i], r[j])
           /\ \A M \in {[i \in N |-> [j \in N |-> Sign(projectsCompare(r[i], r[j]))]]} :
                 /\ \A i, j, k \in N :
                       /\ M[i][j] = -M[j][i]
                       /\ (M[i][j] <= 0 /\ M[j][k] <= 0) => M[i][k] <= 0
                 /\ (\A i, j \in N : i # j => M[i][j] # 0)
                       => \A q \in ArrayPermutations(r) : ArraySort("projects", q) = r

\* The worked example A, B, C, D has come out as B, A, D, C.
C2_Witness ==
    /\ Done("projects")
    /\ NamesOf(items["projects"]) = << <<"A">>, <<"B">>, <<"C">>, <<"D">> >>
    /\ SlugsOf(result["projects"]) = << <<"B">>, <<"A">>, <<"D">>, <<"C">> >>

\* The order the claim gives two news records (slugs in localeCompare order).
NewsInOrder(a, b) ==
    IF HasDate(a) /\ HasDate(b) THEN LexLeq(b.date, a.date)
    ELSE localeCompare(a.slug, b.slug) <= 0

NewsOrderTransitive(r) ==
    \A i, j, k \in 1..Len(r) :
        (NewsInOrder(r[i], r[j]) /\ NewsInOrder(r[j], r[k])) => NewsInOrder(r[i], r[k])

Readable(c) ==
    IF fs.dir[c].status # "ok" THEN {}
    ELSE {i \in 1..Len(fs.dir[c].entries) :
             fs.dir[c].entries[i].isDir /\ fs.dir[c].entries[i].meta # NoFile}

\* C5: a collector returns exactly one record, with the directory name as
\* slug, for each listed directory whose meta.txt can be read, and none for
\* any other entry; a missing meta.txt neither stops the entries after it
\* from being processed nor makes the collector fail: at a directory without
\* meta.txt the records gathered so far are kept and the directories after
\* it are still to be visited.
C5_OneRecordPerReadableDir ==
    \A c \in Collections :
        /\ Done(c) =>
              /\ Len(result[c]) = Cardinality(Readable(c))
              /\ {result[c][i].slug : i \in 1..Len(result[c])}
                    = {fs.dir[c].entries[i].name : i \in Readable(c)}
        /\ (pc[c] = "readFile" /\ EntryOf(c, items[c][idx[c]].name).meta = NoFile) =>
              /\ \A i \in Readable(c) : i < idx[c] =>
                    \E k \in 1..Len(out[c]) : out[c][k].slug = fs.dir[c].entries[i].name
              /\ \A i \in Readable(c) : i > idx[c] => items[c][i].isDir

\* A collector has returned the record of a directory listed after one
\* without meta.txt.
C5_Witness ==
    \E c \in Collections :
        /\ Done(c)
        /\ \E i, j \in 1..Len(fs.dir[c].entries) :
              /\ i < j
              /\ fs.dir[c].entries[i].isDir
              /\ fs.dir[c].entries[i].meta = NoFile
              /\ j \in Readable(c)
              /\ <<c, fs.dir[c].entries[i].name>> \in warned
        /\ Len(result[c]) >= 1

\* The candidate files in the order of preference the claim gives.
Preferred(c) ==
    IF c = "team" THEN <<"photo.png", "photo.jpg", "photo.jpeg", "photo.webp">>
                  ELSE <<"cover.png", "cover.jpg", "cover.jpeg", "cover.webp">>

ImageOf(c, r) == IF c = "team" THEN r.photo ELSE r.cover

\* C7: the cover (photo) of a record is the public path of the earliest of
\* png, jpg, jpeg, webp present in the item directory, and null exactly when
\* none is.
C7_FirstExistingCandidate ==
    \A c \in Collections :
        Done(c) =>
            \A i \in 1..Len(result[c]) :
                LET r == result[c][i]
                    present == {k \in 1..4 : Preferred(c)[k] \in EntryOf(c, r.slug).files}
                IN IF present = {} THEN ImageOf(c, r) = Null
                   ELSE ImageOf(c, r) =
                           <<"/content/", c, "/">> \o r.slug
                              \o <<"/", Preferred(c)[CHOOSE k \in present : \A m \in present : k <= m]>>

\* A record of a directory holding jpg and webp but no png has been returned
\* with the jpg.
C7_Witness ==
    \E c \in Collections :
        /\ Done(c)
        /\ \E i \in 1..Len(result[c]) :
              /\ EntryOf(c, result[c][i].slug).files = {Preferred(c)[2], Preferred(c)[4]}
              /\ ImageOf(c, result[c][i]) =
                    <<"/content/", c, "/">> \o result[c][i].slug \o <<"/", Preferred(c)[2]>>

\* The record of item directory e of collection c, and the value the
\* collector returns when it runs from start to end with nothing in between.
RecordOf(c, e) ==
    LET present == {k \in 1..4 : Preferred(c)[k] \in e.files}
        image == IF present = {} THEN Null
                 ELSE <<"/content/", c, "/">> \o e.name
                         \o <<"/", Preferred(c)[CHOOSE k \in present : \A m \in present : k <= m]>>
    IN CASE c = "projects" ->
              projectRecord(e.name, parseMetaTxt(e.meta), image, galleryOf(e.name, e.gallery))
         [] c = "news" -> newsRecord(e.name, parseMetaTxt(e.meta), image)
         [] c = "team" -> teamRecord(e.name, parseMetaTxt(e.meta), image)

Alone(c) ==
    LET es == IF fs.dir[c].status = "ok" THEN fs.dir[c].entries ELSE <<>>
        kept == SelectSeq(es, LAMBDA e : e.isDir /\ e.meta # NoFile)
    IN ArraySort(c, [i \in 1..Len(kept) |-> RecordOf(c, kept[i])])

KindOf(r) ==
    IF "author" \in DOMAIN r THEN "news"
    ELSE IF "photo" \in DOMAIN r THEN "team"
    ELSE "projects"

\* C9: under every interleaving of the four collectors main starts, each
\* returns what it returns when run alone on the same snapshot, and each list
\* holds only records of its own collection.
C9_CollectorsIndependent ==
    /\ \A c \in Collections :
          /\ Done(c) => result[c] = Alone(c)
          /\ \A k \in 1..Len(out[c]) : KindOf(out[c][k]) = c
    /\ Done("stats") => result["stats"] = collectStats(fs.stats)

\* The three collectors have returned non-empty collections, a project with
\* its cover among them, before collectStats has.
C9_Witness ==
    /\ \A c \in Collections : Done(c) /\ Len(result[c]) >= 1
    /\ \E k \in 1..Len(result["projects"]) : result["projects"][k].cover # Null
    /\ pc["stats"] = "readFile"
    /\ pc["main"] = "awaitAll"

\* C6: when listing a collection root fails for another reason than the
\* directory being absent, the failure is fatal: the collector returns no
\* array, main writes no artifact and does not end with status 0.
C6_ListingFailureIsFatal ==
    \A c \in Collections :
        fs.dir[c].status = "EACCES" =>
            /\ ~Done(c)
            /\ written = <<>>
            /\ pc["main"] # "exit0"

\* A trimmed value is a decimal numeral: digits, with or without a sign.
IsDecimalNumeral(v) ==
    \/ IsDigits(v)
    \/ v # <<>> /\ Head(v) \in {"+", "-"} /\ IsDigits(Tail(v))

DecimalValue(v) ==
    IF Head(v) = "-" THEN 0 - DecValue(Tail(v))
    ELSE IF Head(v) = "+" THEN DecValue(Tail(v))
    ELSE DecValue(v)

\* C8: every line key: value of the stats document maps the trimmed key to
\* the number the trimmed value denotes when that value is a decimal numeral,
\* and to the trimmed value string otherwise (the last line of a key counts).
C8_NumberOnlyForNumerals ==
    (Done("stats") /\ fs.stats # NoFile) =>
        LET lines == SplitLines(fs.stats)
            KeyOf(l) == Trim(SubSeq(l, 1, IndexOf(l, <<":">>) - 1))
            ValueOf(l) == Trim(SubSeq(l, IndexOf(l, <<":">>) + 1, Len(l)))
            Keyed(i) == Trim(lines[i]) # <<>> /\ IndexOf(lines[i], <<":">>) # 0
        IN \A i \in 1..Len(lines) :
              (Keyed(i) /\ \A j \in (i + 1)..Len(lines) :
                              Keyed(j) => KeyOf(lines[j]) # KeyOf(lines[i])) =>
                  /\ KeyOf(lines[i]) \in DOMAIN result["stats"]
                  /\ LET got == result["stats"][KeyOf(lines[i])]
                         v == ValueOf(lines[i])
                     IN IF IsDecimalNumeral(v)
                        THEN got.type = "number" /\ got.num = DecimalValue(v)
                        ELSE got.type = "string" /\ got.str = v

====
